---- MODULE Spec2Model ----
(***************************************************************************)
(* go-lite-logger: the buffered log Worker (logWriter/writer.go) and the   *)
(* Logger facade's enqueue and shutdown paths (logger/logger.go).          *)
(*                                                                         *)
(* Tasks: the producers (logEntry), the processing                         *)
(* loop (Work), the timer goroutine (doTimerJob), the callers of           *)
(* CloseLogger / CloseWorker, and the environment (external removal of the *)
(* log file, failing file writes).                                         *)
(*                                                                         *)
(* Specifications: Spec (all of the above), SpecWorker and SpecShutdown    *)
(* (parts of it), SpecMutex (the Worker with Lock() as a step of its own), *)
(* SpecLogger and SpecFilter (the logging methods, isLoggable and the      *)
(* setters), SpecLevel (Level.String and ParseLevel on bounded inputs),    *)
(* SpecCallback (SpecMutex with the error callback calling CloseLogger).   *)
(*                                                                         *)
(* A rendered byte is modelled as <<id, k, tag>>: the k-th chunk of the    *)
(* line rendered for entry id; chunk 0 is the handle's prefix, chunks 1..  *)
(* are the message, tagged by how it was formatted (Printf / Println).     *)
(***************************************************************************)
EXTENDS Integers, Sequences, FiniteSets, TLC

\* ---------------------------------------------------------------- bounds
\* buffer capacity; 32768 in writer.go:32, scaled down for model checking
capacity == 2
\* capacity of the entry channel; 2048 in logger.go:27, scaled down
ChanCap == 1
\* total number of logging calls made by all producers
MaxEntries == 2
\* message lengths (in chunks) the producers log; the rendered line is one
\* chunk longer: a line of one chunk, of capacity chunks, of capacity + 1
MsgLens == {0, capacity - 1, capacity}
\* number of file writes the environment lets fail
MaxFail == 1
\* largest numeric value of a Level given to String (the levels are 0..3)
MaxLevelValue == 5

\* ---------------------------------------------------------------- levels
ErrorLevel == 0
WarnLevel == 1
InfoLevel == 2
DebugLevel == 3

AllLevels == <<ErrorLevel, WarnLevel, InfoLevel, DebugLevel>>

\* ---------------------------------------------------- level <-> string
\* A text is a sequence of characters. strings.ToLower on the letters A..Z
Lower == [A |-> "a", B |-> "b", C |-> "c", D |-> "d", E |-> "e", F |-> "f", G |-> "g",
          H |-> "h", I |-> "i", J |-> "j", K |-> "k", L |-> "l", M |-> "m", N |-> "n",
          O |-> "o", P |-> "p", Q |-> "q", R |-> "r", S |-> "s", T |-> "t", U |-> "u",
          V |-> "v", W |-> "w", X |-> "x", Y |-> "y", Z |-> "z"]

\* ToLower as it would be if it lowered the first character only
ToLowerFirst(t) ==
    [i \in 1..Len(t) |-> IF i = 1 /\ t[i] \in DOMAIN Lower THEN Lower[t[i]] ELSE t[i]]

ToLower(t) == [i \in 1..Len(t) |-> IF t[i] \in DOMAIN Lower THEN Lower[t[i]] ELSE t[i]]

\* Level.String
String(level) ==
    CASE level = DebugLevel -> <<"d", "e", "b", "u", "g">>
      [] level = InfoLevel -> <<"i", "n", "f", "o">>
      [] level = WarnLevel -> <<"w", "a", "r", "n", "i", "n", "g">>
      [] level = ErrorLevel -> <<"e", "r", "r", "o", "r">>
      [] OTHER -> <<"u", "n", "k", "n", "o", "w", "n">>

\* ParseLevel: the level and whether an error is returned (with the zero Level)
ParseLevel(lvl) ==
    LET l == ToLower(lvl) IN
    CASE l = <<"e", "r", "r", "o", "r">> -> [level |-> ErrorLevel, err |-> FALSE]
      [] l = <<"w", "a", "r", "n">> \/ l = <<"w", "a", "r", "n", "i", "n", "g">>
            -> [level |-> WarnLevel, err |-> FALSE]
      [] l = <<"i", "n", "f", "o">> -> [level |-> InfoLevel, err |-> FALSE]
      [] l = <<"d", "e", "b", "u", "g">> -> [level |-> DebugLevel, err |-> FALSE]
      [] OTHER -> [level |-> 0, err |-> TRUE]

\* no text (String returns no empty text), no result
NoText == <<>>
NoResult == [level |-> -1, err |-> FALSE]
\* no call of a logging method yet
NoCall == [level |-> -1, format |-> FALSE, status |-> FALSE, logLevel |-> -1,
           loggable |-> FALSE]

Producers == {"p1"}
Closers == {"c1", "c2"}

\* the levels the producers log at (main logs at Info)
LogLevels == {InfoLevel}

NoByte == <<0, 0, "">>
NoEntry == [id |-> 0, level |-> ErrorLevel, format |-> FALSE, len |-> 0]
\* a step that calls neither save nor Write
NoStep == [op |-> "none", caller |-> "none", outcome |-> "none", posBefore |-> 0,
           posAfter |-> 0, n |-> 0, cb |-> 0, len |-> 0, copied |-> FALSE]

VARIABLES
    channel,     \* Logger.channel / Worker.channel: queued entries
    nextId,      \* number of entries sent on the channel so far
    stopCh,      \* Logger.stopCh is closed
    done,        \* Worker.done is closed
    quitTimer,   \* Worker.quitTimer is closed
    lonce,       \* Logger.once: "init", "running", "done"
    wonce,       \* Worker.once: "init", "running", "done"
    buffer,      \* Worker.buffer
    position,    \* Worker.position
    lock,        \* Worker.lock: "free" or the task holding it
    file,        \* bytes written to the log file
    exists,      \* the log file is present on disk (os.Stat succeeds)
    fileClosed,  \* Logger.logFile has been closed
    fails,       \* number of file writes that failed so far
    crashed,     \* a goroutine panicked (slice bounds out of range)
    ppc, pent,   \* producers: position and the entry being sent
    wpc, wevent, \* Work: position and the entry received
    tpc,         \* timer goroutine: position
    cpc, capi,   \* callers of CloseLogger / CloseWorker: position and the call made
    clen, ci, cevent,  \* CloseWorker's body: length, i, event
    \* history
    sent,        \* the entries sent on the channel, in order
    appended,    \* concatenation of all spans copied by Write
    mark,        \* Len(appended) at the last successful save
    step,        \* what the latest step did: a call of save on a non-empty buffer,
                 \* a call of Write, or neither
    beganAt,     \* nextId when CloseWorker's body began, -1 before
    bodyRuns,    \* number of executions of CloseWorker's body
    ioFailed,    \* a file write failed or a flush found the file missing
    \* the Logger's filter
    status,      \* Logger.status: logging is on
    logLevel,    \* Logger.logLevel
    pcall,       \* producers: the latest call of a logging method
    \* a caller of Level.String and ParseLevel
    inLevel,     \* the Level given to String
    inText,      \* the text given to ParseLevel
    outText,     \* what String returned, NoText before
    outParse     \* what ParseLevel returned, NoResult before

vars == <<channel, nextId, stopCh, done, quitTimer, lonce, wonce, buffer, position,
          lock, file, exists, fileClosed, fails, crashed, ppc, pent, wpc, wevent,
          tpc, cpc, capi, clen, ci, cevent, sent, appended, mark, step,
          beganAt, bodyRuns, ioFailed, status, logLevel, pcall,
          inLevel, inText, outText, outParse>>

filterVars == <<status, logLevel, pcall>>
levelVars == <<inLevel, inText, outText, outParse>>

Min(a, b) == IF a < b THEN a ELSE b

\* ------------------------------------------------------------- rendering
\* createLogHandles: the prefix of each level's handle
Prefix(level) ==
    CASE level = InfoLevel -> "[INFO]  "
      [] level = WarnLevel -> "[WARN]  "
      [] level = ErrorLevel -> "[ERROR] "
      [] level = DebugLevel -> "[DEBUG] "

\* Entry constructors
NewEntry(level, len) == [level |-> level, format |-> FALSE, len |-> len]
NewFormattedEntry(level, len) == [level |-> level, format |-> TRUE, len |-> len]

\* writeToBuffer: the line the level's handle passes to Write in one call
Render(event) ==
    <<<<event.id, 0, Prefix(event.level)>>>> \o
    [k \in 1..event.len |-> <<event.id, k, IF event.format THEN "Printf" ELSE "Println">>]

\* ------------------------------------------------------------ the buffer
\* bytes appended and not yet written by a successful save
Pending == SubSeq(appended, mark + 1, Len(appended))

\* buffer[0:position], as far as the buffer reaches
Valid == [i \in 1..position |-> IF i <= capacity THEN buffer[i] ELSE NoByte]

\* the outcomes the file write of a flush can have: all bytes written, or an
\* error after wn bytes; a write on the closed file always fails
WriteOutcomes ==
    IF fileClosed THEN {[werr |-> TRUE, wn |-> 0]}
    ELSE {[werr |-> FALSE, wn |-> position]} \cup
         (IF fails < MaxFail /\ position > 0 /\ position <= capacity
          THEN {[werr |-> TRUE, wn |-> k] : k \in 0..(position - 1)} ELSE {})

\* save as it would be if a missing file were reported to the caller as an error
saveMissingIsError(pos, buf, fex, werr, wn) ==
    IF pos = 0
    THEN [outcome |-> "empty", n |-> 0, err |-> FALSE, position |-> pos,
          wrote |-> <<>>, cb |-> 0, panic |-> FALSE]
    ELSE IF fex
    THEN IF pos > capacity
         THEN [outcome |-> "panic", n |-> 0, err |-> FALSE, position |-> pos,
               wrote |-> <<>>, cb |-> 0, panic |-> TRUE]
         ELSE IF ~werr
         THEN [outcome |-> "ok", n |-> pos, err |-> FALSE, position |-> 0,
               wrote |-> SubSeq(buf, 1, pos), cb |-> 0, panic |-> FALSE]
         ELSE [outcome |-> "error", n |-> wn, err |-> TRUE, position |-> pos,
               wrote |-> SubSeq(buf, 1, wn), cb |-> 0, panic |-> FALSE]
    ELSE [outcome |-> "missing", n |-> 0, err |-> TRUE, position |-> pos,
          wrote |-> <<>>, cb |-> 1, panic |-> FALSE]

\* save: the result of one call with the buffer at pos, the file present or not
\* (fex) and the file write failing or not (werr, after wn bytes)
save(pos, buf, fex, werr, wn) ==
    IF pos = 0
    THEN [outcome |-> "empty", n |-> 0, err |-> FALSE, position |-> pos,
          wrote |-> <<>>, cb |-> 0, panic |-> FALSE]
    ELSE IF fex
    THEN IF pos > capacity
         THEN \* w.buffer[0:w.position]: slice bounds out of range
              [outcome |-> "panic", n |-> 0, err |-> FALSE, position |-> pos,
               wrote |-> <<>>, cb |-> 0, panic |-> TRUE]
         ELSE IF ~werr
         THEN [outcome |-> "ok", n |-> pos, err |-> FALSE, position |-> 0,
               wrote |-> SubSeq(buf, 1, pos), cb |-> 0, panic |-> FALSE]
         ELSE [outcome |-> "error", n |-> wn, err |-> TRUE, position |-> pos,
               wrote |-> SubSeq(buf, 1, wn), cb |-> 0, panic |-> FALSE]
    ELSE [outcome |-> "missing", n |-> 0, err |-> FALSE, position |-> pos,
          wrote |-> <<>>, cb |-> 1, panic |-> FALSE]

\* copy as it would be if it ignored the position: copy(w.buffer, data)
copyAtStart(buf, p, data) ==
    [i \in 1..capacity |-> IF i <= Min(Len(data), capacity) THEN data[i] ELSE buf[i]]

\* copy(w.buffer[p:], data): copies as many bytes as fit
copy(buf, p, data) ==
    [i \in 1..capacity |->
        IF i > p /\ i <= p + Min(Len(data), capacity - p) THEN data[i - p] ELSE buf[i]]

\* Write: the result of one call, made with the lock held
Write(pos, buf, data, fex, werr, wn) ==
    LET length == Len(data)
        flush == (length + pos) > capacity
        sv == IF flush THEN save(pos, buf, fex, werr, wn)
              ELSE [outcome |-> "none", n |-> 0, err |-> FALSE, position |-> pos,
                    wrote |-> <<>>, cb |-> 0, panic |-> FALSE]
        p == sv.position
    IN  IF sv.panic
        THEN [sv |-> sv, flushed |-> flush, cb |-> sv.cb, position |-> p, buffer |-> buf,
              copied |-> FALSE, unlocked |-> FALSE, panic |-> TRUE]
        ELSE IF sv.err
        THEN \* errorCallback(); return n, err  -- the lock stays held
             [sv |-> sv, flushed |-> flush, cb |-> sv.cb + 1, position |-> p, buffer |-> buf,
              copied |-> FALSE, unlocked |-> FALSE, panic |-> FALSE]
        ELSE IF p > capacity
        THEN \* w.buffer[w.position:]: slice bounds out of range
             [sv |-> sv, flushed |-> flush, cb |-> sv.cb, position |-> p, buffer |-> buf,
              copied |-> FALSE, unlocked |-> FALSE, panic |-> TRUE]
        ELSE [sv |-> sv, flushed |-> flush, cb |-> sv.cb, position |-> p + length,
              buffer |-> copy(buf, p, data),
              copied |-> TRUE, unlocked |-> TRUE, panic |-> FALSE]

\* the state after a call of save by caller, who invokes the callback callerCb
\* more times on the error it gets back
SaveEffects(caller, sv, callerCb) ==
    /\ file' = file \o sv.wrote
    /\ position' = sv.position
    /\ crashed' = sv.panic
    /\ fails' = IF sv.outcome = "error" /\ ~fileClosed THEN fails + 1 ELSE fails
    /\ ioFailed' = (ioFailed \/ sv.outcome \in {"error", "missing"})
    /\ mark' = IF sv.outcome = "ok" THEN Len(appended) ELSE mark
    /\ step' = IF sv.outcome = "empty" THEN NoStep
               ELSE [op |-> "save", caller |-> caller, outcome |-> sv.outcome,
                     posBefore |-> position, posAfter |-> sv.position, n |-> sv.n,
                     cb |-> sv.cb + callerCb, len |-> 0, copied |-> FALSE]
    /\ UNCHANGED <<filterVars, levelVars>>

\* the state after a call of Write(data) by caller; Write returns with the lock
\* released, or, on its error path, still held
WriteEffects(caller, data, o) ==
    LET w == Write(position, buffer, data, exists, o.werr, o.wn) IN
    /\ file' = file \o w.sv.wrote
    /\ position' = w.position
    /\ buffer' = w.buffer
    /\ crashed' = w.panic
    /\ fails' = IF w.sv.outcome = "error" /\ ~fileClosed THEN fails + 1 ELSE fails
    /\ ioFailed' = (ioFailed \/ w.sv.outcome \in {"error", "missing"})
    /\ mark' = IF w.sv.outcome = "ok" THEN Len(appended) ELSE mark
    /\ appended' = IF w.copied THEN appended \o data ELSE appended
    /\ step' = [op |-> "Write", caller |-> caller, outcome |-> w.sv.outcome,
                posBefore |-> position, posAfter |-> w.sv.position, n |-> w.sv.n,
                cb |-> w.cb, len |-> Len(data), copied |-> w.copied]
    /\ lock' = IF w.unlocked THEN "free" ELSE caller
    /\ UNCHANGED <<filterVars, levelVars>>

\* ------------------------------------------------------------------ Init
\* the state CreateLogger leaves: an open file, an empty buffer, the tasks at
\* the start of their loops
NewLogger ==
    /\ channel = <<>>
    /\ nextId = 0
    /\ stopCh = FALSE /\ done = FALSE /\ quitTimer = FALSE
    /\ lonce = "init" /\ wonce = "init"
    /\ buffer = [i \in 1..capacity |-> NoByte]
    /\ position = 0
    /\ lock = "free"
    /\ file = <<>>
    /\ exists = TRUE /\ fileClosed = FALSE
    /\ fails = 0
    /\ crashed = FALSE
    /\ ppc = [p \in Producers |-> "idle"]
    /\ pent = [p \in Producers |-> NoEntry]
    /\ wpc = "select" /\ wevent = NoEntry
    /\ tpc = "select"
    /\ cpc = [c \in Closers |-> "idle"]
    /\ capi = [c \in Closers |-> "none"]
    /\ clen = 0 /\ ci = 0 /\ cevent = NoEntry
    /\ sent = <<>> /\ appended = <<>> /\ mark = 0
    /\ step = NoStep
    /\ beganAt = -1 /\ bodyRuns = 0 /\ ioFailed = FALSE
    /\ status = TRUE /\ logLevel = InfoLevel
    /\ pcall = [p \in Producers |-> NoCall]

Init ==
    /\ NewLogger
    /\ inLevel = ErrorLevel /\ inText = NoText /\ outText = NoText /\ outParse = NoResult

\* a step that touches neither the buffer, the file nor the lock
Still ==
    /\ step' = NoStep
    /\ UNCHANGED <<buffer, position, lock, file, fails, crashed, appended, mark, ioFailed>>
    /\ UNCHANGED levelVars

\* such a step, made outside the logging methods and the setters
Quiet == Still /\ UNCHANGED filterVars

\* the entry p sends, numbered in the order of the sends
Sending(p) == [id |-> nextId + 1, level |-> pent[p].level, format |-> pent[p].format,
               len |-> pent[p].len]

closeVars == <<stopCh, done, quitTimer, lonce, wonce, fileClosed, cpc, capi, clen, ci,
               cevent, beganAt, bodyRuns>>
prodVars == <<ppc, pent>>
chanVars == <<channel, nextId, sent>>
workVars == <<wpc, wevent>>

\* The steps a task makes between w.lock.Lock() and its return are one step of
\* the model, taken when the lock is free: they read and write only what the
\* lock guards. A task that finds the lock held waits at its Lock().

\* ------------------------------------------------------------- producers
\* the logging calls in progress or completed
Logged == nextId + Cardinality({p \in Producers : ppc[p] = "send"})

\* logEntry up to the send: returns when stopCh is closed, else builds the entry
logEntry(p) ==
    /\ ~crashed /\ ppc[p] = "idle" /\ Logged < MaxEntries
    /\ \E level \in LogLevels, len \in MsgLens :
         IF stopCh
         THEN UNCHANGED prodVars
         ELSE /\ ppc' = [ppc EXCEPT ![p] = "send"]
              /\ pent' = [pent EXCEPT ![p] = NewEntry(level, len)]
    /\ Quiet
    /\ UNCHANGED <<chanVars, closeVars, workVars, tpc, exists>>

\* logger.channel <- entry: blocks while the channel is full
Send(p) ==
    /\ ~crashed /\ ppc[p] = "send" /\ Len(channel) < ChanCap
    /\ channel' = Append(channel, Sending(p))
    /\ sent' = Append(sent, Sending(p))
    /\ nextId' = nextId + 1
    /\ ppc' = [ppc EXCEPT ![p] = "idle"]
    /\ pent' = [pent EXCEPT ![p] = NoEntry]
    /\ Quiet
    /\ UNCHANGED <<closeVars, workVars, tpc, exists>>

\* ------------------------------------------------------------------ Work
\* select { case <-w.done: return; default: ... }
WorkSelect ==
    /\ ~crashed /\ wpc = "select"
    /\ wpc' = IF done THEN "exit" ELSE "recv"
    /\ Quiet
    /\ UNCHANGED <<wevent, chanVars, closeVars, prodVars, tpc, exists>>

\* event := <-w.channel: blocks while the channel is empty
WorkRecv ==
    /\ ~crashed /\ wpc = "recv" /\ channel # <<>>
    /\ wevent' = Head(channel)
    /\ channel' = Tail(channel)
    /\ wpc' = "write"
    /\ Quiet
    /\ UNCHANGED <<nextId, sent, closeVars, prodVars, tpc, exists>>

\* w.writeToBuffer(event): the handle renders the line and calls Write
WorkWrite ==
    /\ ~crashed /\ wpc = "write" /\ lock = "free"
    /\ \E o \in WriteOutcomes : WriteEffects("work", Render(wevent), o)
    /\ wpc' = IF crashed' THEN wpc ELSE "select"
    /\ wevent' = IF crashed' THEN wevent ELSE NoEntry
    /\ UNCHANGED <<chanVars, closeVars, prodVars, tpc, exists>>

\* ----------------------------------------------------------------- timer
\* case <-w.ticker.C, with the lock held by a task that never released it
TimerTick ==
    /\ ~crashed /\ tpc = "select" /\ lock # "free"
    /\ tpc' = "lock"
    /\ Quiet
    /\ UNCHANGED <<chanVars, closeVars, prodVars, workVars, exists>>

\* case <-w.ticker.C:
\*   Lock(); _, err := w.save(); if err != nil { w.errorCallback() }; Unlock()
TimerFlush ==
    /\ ~crashed /\ tpc \in {"select", "lock"} /\ lock = "free"
    /\ \E o \in WriteOutcomes :
         LET sv == save(position, buffer, exists, o.werr, o.wn) IN
         SaveEffects("timer", sv, IF sv.err THEN 1 ELSE 0)
    /\ tpc' = IF crashed' THEN tpc ELSE "select"
    /\ UNCHANGED <<chanVars, buffer, lock, appended, closeVars, prodVars,
                   workVars, exists>>

\* case <-w.quitTimer: w.ticker.Stop(); return
TimerQuit ==
    /\ ~crashed /\ tpc = "select" /\ quitTimer
    /\ tpc' = "stopped"
    /\ Quiet
    /\ UNCHANGED <<chanVars, closeVars, prodVars, workVars, exists>>

\* ---------------------------------------------- CloseLogger, CloseWorker
restOfClose == <<chanVars, prodVars, workVars, tpc, exists>>

\* the callers are named in the order of their calls
MayCall(c) == cpc[c] = "idle" /\ (c = "c1" \/ cpc["c1"] # "idle")

\* CloseLogger is called. logger.once.Do: the first caller runs the body,
\* which starts with close(logger.stopCh); any other caller waits for it
CloseLogger(c) ==
    /\ ~crashed /\ MayCall(c)
    /\ capi' = [capi EXCEPT ![c] = "CloseLogger"]
    /\ IF lonce = "init"
       THEN /\ lonce' = "running"
            /\ stopCh' = TRUE
            /\ cpc' = [cpc EXCEPT ![c] = "cw"]
       ELSE /\ cpc' = [cpc EXCEPT ![c] = "lwait"]
            /\ UNCHANGED <<lonce, stopCh>>
    /\ Quiet
    /\ UNCHANGED <<done, quitTimer, wonce, fileClosed, clen, ci, cevent, beganAt,
                   bodyRuns, restOfClose>>

\* logger.once.Do returns to a caller that waited once the body is over
LoggerWait(c) ==
    /\ ~crashed /\ cpc[c] = "lwait" /\ lonce = "done"
    /\ cpc' = [cpc EXCEPT ![c] = "ret"]
    /\ Quiet
    /\ UNCHANGED <<stopCh, done, quitTimer, lonce, wonce, fileClosed, capi, clen, ci,
                   cevent, beganAt, bodyRuns, restOfClose>>

\* a Once that forgets it has run: a call made after the body is over runs it again
OnceDoAgain(state) == state # "running"

\* the Once of the Worker: the first caller runs the body
OnceDo(state) == state = "init"

\* CloseWorker is called, directly or by the body of CloseLogger. w.once.Do:
\* the first caller runs the body, which starts with close(w.done)
CloseWorker(c) ==
    /\ ~crashed /\ (MayCall(c) \/ cpc[c] = "cw")
    /\ capi' = [capi EXCEPT ![c] = IF cpc[c] = "idle" THEN "CloseWorker" ELSE capi[c]]
    /\ IF OnceDo(wonce)
       THEN /\ wonce' = "running"
            /\ done' = TRUE
            /\ bodyRuns' = bodyRuns + 1
            /\ beganAt' = nextId
            /\ cpc' = [cpc EXCEPT ![c] = "quit"]
       ELSE /\ cpc' = [cpc EXCEPT ![c] = "wwait"]
            /\ UNCHANGED <<wonce, done, bodyRuns, beganAt>>
    /\ Quiet
    /\ UNCHANGED <<stopCh, quitTimer, lonce, fileClosed, clen, ci, cevent, restOfClose>>

\* the Once of the Worker lets a caller that did not run the body return
OnceReturns(state) == state = "done"

\* w.once.Do returns to a caller that waited, and CloseWorker returns
WorkerWait(c) ==
    /\ ~crashed /\ cpc[c] = "wwait" /\ OnceReturns(wonce)
    /\ cpc' = [cpc EXCEPT ![c] = "after"]
    /\ Quiet
    /\ UNCHANGED <<stopCh, done, quitTimer, lonce, wonce, fileClosed, capi, clen, ci,
                   cevent, beganAt, bodyRuns, restOfClose>>

\* close(w.quitTimer)
CloseQuit(c) ==
    /\ ~crashed /\ cpc[c] = "quit"
    /\ quitTimer' = TRUE
    /\ cpc' = [cpc EXCEPT ![c] = "save1"]
    /\ Quiet
    /\ UNCHANGED <<stopCh, done, lonce, wonce, fileClosed, capi, clen, ci, cevent,
                   beganAt, bodyRuns, restOfClose>>

\* w.lock.Lock(); w.save(); w.lock.Unlock(): the result of save is dropped
CloseSave1(c) ==
    /\ ~crashed /\ cpc[c] = "save1" /\ lock = "free"
    /\ \E o \in WriteOutcomes :
         SaveEffects(c, save(position, buffer, exists, o.werr, o.wn), 0)
    /\ cpc' = IF crashed' THEN cpc ELSE [cpc EXCEPT ![c] = "len"]
    /\ UNCHANGED <<stopCh, done, quitTimer, lonce, wonce, fileClosed, capi, clen, ci,
                   cevent, beganAt, bodyRuns, buffer, lock, appended, restOfClose>>

\* length := len(w.channel); for i := 0; i < length; ...
CloseLen(c) ==
    /\ ~crashed /\ cpc[c] = "len"
    /\ clen' = Len(channel)
    /\ ci' = 0
    /\ cpc' = [cpc EXCEPT ![c] = IF Len(channel) > 0 THEN "recv" ELSE "save2"]
    /\ Quiet
    /\ UNCHANGED <<stopCh, done, quitTimer, lonce, wonce, fileClosed, capi, cevent,
                   beganAt, bodyRuns, restOfClose>>

\* event := <-w.channel in the drain loop: blocks while the channel is empty
CloseRecv(c) ==
    /\ ~crashed /\ cpc[c] = "recv" /\ channel # <<>>
    /\ cevent' = Head(channel)
    /\ channel' = Tail(channel)
    /\ cpc' = [cpc EXCEPT ![c] = "write"]
    /\ Quiet
    /\ UNCHANGED <<stopCh, done, quitTimer, lonce, wonce, fileClosed, capi, clen, ci,
                   beganAt, bodyRuns, nextId, sent, prodVars, workVars, tpc, exists>>

\* w.writeToBuffer(event) in the drain loop; i++
CloseWrite(c) ==
    /\ ~crashed /\ cpc[c] = "write" /\ lock = "free"
    /\ \E o \in WriteOutcomes : WriteEffects(c, Render(cevent), o)
    /\ ci' = IF crashed' THEN ci ELSE ci + 1
    /\ cevent' = IF crashed' THEN cevent ELSE NoEntry
    /\ cpc' = IF crashed' THEN cpc
             ELSE [cpc EXCEPT ![c] = IF ci + 1 < clen THEN "recv" ELSE "save2"]
    /\ UNCHANGED <<stopCh, done, quitTimer, lonce, wonce, fileClosed, capi, clen,
                   beganAt, bodyRuns, restOfClose>>

\* the final w.lock.Lock(); w.save(); w.lock.Unlock(), which ends the body
CloseSave2(c) ==
    /\ ~crashed /\ cpc[c] = "save2" /\ lock = "free"
    /\ \E o \in WriteOutcomes :
         SaveEffects(c, save(position, buffer, exists, o.werr, o.wn), 0)
    /\ wonce' = IF crashed' THEN wonce ELSE "done"
    /\ cpc' = IF crashed' THEN cpc ELSE [cpc EXCEPT ![c] = "after"]
    /\ UNCHANGED <<stopCh, done, quitTimer, lonce, fileClosed, capi, clen, ci,
                   cevent, beganAt, bodyRuns, buffer, lock, appended, restOfClose>>

\* CloseWorker returns; in the body of CloseLogger, logger.logFile.Close()
\* follows and the body is over
CloseReturn(c) ==
    /\ ~crashed /\ cpc[c] = "after"
    /\ IF capi[c] = "CloseLogger"
       THEN fileClosed' = TRUE /\ lonce' = "done"
       ELSE UNCHANGED <<fileClosed, lonce>>
    /\ cpc' = [cpc EXCEPT ![c] = "ret"]
    /\ Quiet
    /\ UNCHANGED <<stopCh, done, quitTimer, wonce, capi, clen, ci, cevent, beganAt,
                   bodyRuns, restOfClose>>

\* ----------------------------------------------------------- environment
\* the log file is removed from the disk by someone else
RemoveFile ==
    /\ ~crashed /\ exists
    /\ exists' = FALSE
    /\ Quiet
    /\ UNCHANGED <<chanVars, closeVars, prodVars, workVars, tpc>>

Next ==
    \/ \E p \in Producers : logEntry(p)
    \/ \E p \in Producers : Send(p)
    \/ WorkSelect
    \/ WorkRecv
    \/ WorkWrite
    \/ TimerTick
    \/ TimerFlush
    \/ TimerQuit
    \/ \E c \in Closers : CloseLogger(c)
    \/ \E c \in Closers : LoggerWait(c)
    \/ \E c \in Closers : CloseWorker(c)
    \/ \E c \in Closers : WorkerWait(c)
    \/ \E c \in Closers : CloseQuit(c)
    \/ \E c \in Closers : CloseSave1(c)
    \/ \E c \in Closers : CloseLen(c)
    \/ \E c \in Closers : CloseRecv(c)
    \/ \E c \in Closers : CloseWrite(c)
    \/ \E c \in Closers : CloseSave2(c)
    \/ \E c \in Closers : CloseReturn(c)
    \/ RemoveFile

Spec == Init /\ [][Next]_vars

\* the Worker on its own (package logWriter): the producers, Work, the timer
\* goroutine, the environment and one call of CloseWorker
NextWorker ==
    \/ \E p \in Producers : logEntry(p)
    \/ \E p \in Producers : Send(p)
    \/ WorkSelect
    \/ WorkRecv
    \/ WorkWrite
    \/ TimerTick
    \/ TimerFlush
    \/ TimerQuit
    \/ CloseWorker("c1")
    \/ CloseQuit("c1")
    \/ CloseSave1("c1")
    \/ CloseLen("c1")
    \/ CloseRecv("c1")
    \/ CloseWrite("c1")
    \/ CloseSave2("c1")
    \/ CloseReturn("c1")
    \/ RemoveFile

SpecWorker == Init /\ [][NextWorker]_vars

\* shutdown with the timer goroutine never scheduled and the log file left in
\* place: the producers, Work and the concurrent callers of CloseLogger and
\* CloseWorker
NextShutdown ==
    \/ \E p \in Producers : logEntry(p)
    \/ \E p \in Producers : Send(p)
    \/ WorkSelect
    \/ WorkRecv
    \/ WorkWrite
    \/ \E c \in Closers : CloseLogger(c)
    \/ \E c \in Closers : LoggerWait(c)
    \/ \E c \in Closers : CloseWorker(c)
    \/ \E c \in Closers : WorkerWait(c)
    \/ \E c \in Closers : CloseQuit(c)
    \/ \E c \in Closers : CloseSave1(c)
    \/ \E c \in Closers : CloseLen(c)
    \/ \E c \in Closers : CloseRecv(c)
    \/ \E c \in Closers : CloseWrite(c)
    \/ \E c \in Closers : CloseSave2(c)
    \/ \E c \in Closers : CloseReturn(c)

SpecShutdown == Init /\ [][NextShutdown]_vars

\* ------------------------------------------ the critical sections, split
\* The same tasks with w.lock.Lock() as a step of its own: a task is inside
\* its critical section from that step until the step that ends with
\* w.lock.Unlock() or with the return that skips it.

\* a mutex that lets every caller in
MutexIgnored(l) == TRUE

\* sync.Mutex: Lock() returns once the mutex is free
MutexFree(l) == l = "free"

\* Write: w.lock.Lock(), called by Work through the handle
WorkLock ==
    /\ ~crashed /\ wpc = "write" /\ MutexFree(lock)
    /\ lock' = "work"
    /\ wpc' = "cs"
    /\ step' = NoStep
    /\ UNCHANGED <<buffer, position, file, fails, crashed, appended, mark, ioFailed,
                   levelVars, filterVars, wevent, chanVars, closeVars, prodVars, tpc,
                   exists>>

\* Write after its Lock(), up to its return
WorkCritical ==
    /\ ~crashed /\ wpc = "cs"
    /\ \E o \in WriteOutcomes : WriteEffects("work", Render(wevent), o)
    /\ wpc' = IF crashed' THEN wpc ELSE "select"
    /\ wevent' = IF crashed' THEN wevent ELSE NoEntry
    /\ UNCHANGED <<chanVars, closeVars, prodVars, tpc, exists>>

\* case <-w.ticker.C: w.lock.Lock()
TimerLock ==
    /\ ~crashed /\ tpc \in {"select", "lock"} /\ MutexFree(lock)
    /\ lock' = "timer"
    /\ tpc' = "cs"
    /\ step' = NoStep
    /\ UNCHANGED <<buffer, position, file, fails, crashed, appended, mark, ioFailed,
                   levelVars, filterVars, chanVars, closeVars, prodVars, workVars,
                   exists>>

\* _, err := w.save(); if err != nil { w.errorCallback() }; w.lock.Unlock()
TimerCritical ==
    /\ ~crashed /\ tpc = "cs"
    /\ \E o \in WriteOutcomes :
         LET sv == save(position, buffer, exists, o.werr, o.wn) IN
         SaveEffects("timer", sv, IF sv.err THEN 1 ELSE 0)
    /\ lock' = IF crashed' THEN lock ELSE "free"
    /\ tpc' = IF crashed' THEN tpc ELSE "select"
    /\ UNCHANGED <<chanVars, buffer, appended, closeVars, prodVars, workVars, exists>>

\* w.lock.Lock() in CloseWorker's body, before either save and in the Write of
\* the drain loop
CloseLock(c) ==
    /\ ~crashed /\ cpc[c] \in {"save1", "write", "save2"} /\ MutexFree(lock)
    /\ lock' = c
    /\ cpc' = [cpc EXCEPT ![c] = CASE cpc[c] = "save1" -> "cs1"
                                   [] cpc[c] = "write" -> "csw"
                                   [] cpc[c] = "save2" -> "cs2"]
    /\ step' = NoStep
    /\ UNCHANGED <<buffer, position, file, fails, crashed, appended, mark, ioFailed,
                   levelVars, filterVars, stopCh, done, quitTimer, lonce, wonce,
                   fileClosed, capi, clen, ci, cevent, beganAt, bodyRuns, restOfClose>>

\* w.save(); w.lock.Unlock(), the first time
CloseCritical1(c) ==
    /\ ~crashed /\ cpc[c] = "cs1"
    /\ \E o \in WriteOutcomes :
         SaveEffects(c, save(position, buffer, exists, o.werr, o.wn), 0)
    /\ lock' = IF crashed' THEN lock ELSE "free"
    /\ cpc' = IF crashed' THEN cpc ELSE [cpc EXCEPT ![c] = "len"]
    /\ UNCHANGED <<stopCh, done, quitTimer, lonce, wonce, fileClosed, capi, clen, ci,
                   cevent, beganAt, bodyRuns, buffer, appended, restOfClose>>

\* Write after its Lock(), in the drain loop; i++
CloseCriticalWrite(c) ==
    /\ ~crashed /\ cpc[c] = "csw"
    /\ \E o \in WriteOutcomes : WriteEffects(c, Render(cevent), o)
    /\ ci' = IF crashed' THEN ci ELSE ci + 1
    /\ cevent' = IF crashed' THEN cevent ELSE NoEntry
    /\ cpc' = IF crashed' THEN cpc
             ELSE [cpc EXCEPT ![c] = IF ci + 1 < clen THEN "recv" ELSE "save2"]
    /\ UNCHANGED <<stopCh, done, quitTimer, lonce, wonce, fileClosed, capi, clen,
                   beganAt, bodyRuns, restOfClose>>

\* w.save(); w.lock.Unlock(), the final time, which ends the body
CloseCritical2(c) ==
    /\ ~crashed /\ cpc[c] = "cs2"
    /\ \E o \in WriteOutcomes :
         SaveEffects(c, save(position, buffer, exists, o.werr, o.wn), 0)
    /\ lock' = IF crashed' THEN lock ELSE "free"
    /\ wonce' = IF crashed' THEN wonce ELSE "done"
    /\ cpc' = IF crashed' THEN cpc ELSE [cpc EXCEPT ![c] = "after"]
    /\ UNCHANGED <<stopCh, done, quitTimer, lonce, fileClosed, capi, clen, ci,
                   cevent, beganAt, bodyRuns, buffer, appended, restOfClose>>

\* the Worker with the split critical sections: the producers, Work, the timer
\* goroutine, failing writes and one call of CloseWorker
NextMutex ==
    \/ \E p \in Producers : logEntry(p)
    \/ \E p \in Producers : Send(p)
    \/ WorkSelect
    \/ WorkRecv
    \/ WorkLock
    \/ WorkCritical
    \/ TimerTick
    \/ TimerLock
    \/ TimerCritical
    \/ TimerQuit
    \/ CloseWorker("c1")
    \/ CloseQuit("c1")
    \/ CloseLock("c1")
    \/ CloseCritical1("c1")
    \/ CloseLen("c1")
    \/ CloseRecv("c1")
    \/ CloseCriticalWrite("c1")
    \/ CloseCritical2("c1")
    \/ CloseReturn("c1")

SpecMutex == Init /\ [][NextMutex]_vars

\* ------------------------------------ the error callback of main, as a call
\* main's errorCallback is myLogger1.CloseLogger(). Every call of the callback
\* is made by a task inside its critical section, with the lock held. The
\* call of CloseLogger is made by "c2" on behalf of that task, which stays in
\* its critical section until the call has returned; main's own call is "c1".

\* the critical section task t is in invokes the callback whatever the file
\* write does: save finds the file missing, or the write is on the closed file
\* and Write or the timer loop gets its error from save
CallbackDue(t) ==
    \/ /\ t = "work" /\ wpc = "cs"
       /\ \A o \in WriteOutcomes :
            Write(position, buffer, Render(wevent), exists, o.werr, o.wn).cb >= 1
    \/ /\ t = "timer" /\ tpc = "cs"
       /\ \A o \in WriteOutcomes :
            LET sv == save(position, buffer, exists, o.werr, o.wn) IN sv.cb >= 1 \/ sv.err
    \/ /\ t \in Closers /\ cpc[t] \in {"cs1", "cs2"}
       /\ \A o \in WriteOutcomes : save(position, buffer, exists, o.werr, o.wn).cb >= 1
    \/ /\ t \in Closers /\ cpc[t] = "csw"
       /\ \A o \in WriteOutcomes :
            Write(position, buffer, Render(cevent), exists, o.werr, o.wn).cb >= 1

\* w.errorCallback(): CloseLogger is called, up to logger.once.Do
Callback ==
    /\ ~crashed /\ cpc["c2"] = "idle"
    /\ \E t \in {"work", "timer", "c1"} : CallbackDue(t)
    /\ capi' = [capi EXCEPT !["c2"] = "CloseLogger"]
    /\ IF lonce = "init"
       THEN /\ lonce' = "running"
            /\ stopCh' = TRUE
            /\ cpc' = [cpc EXCEPT !["c2"] = "cw"]
       ELSE /\ cpc' = [cpc EXCEPT !["c2"] = "lwait"]
            /\ UNCHANGED <<lonce, stopCh>>
    /\ Quiet
    /\ UNCHANGED <<done, quitTimer, wonce, fileClosed, clen, ci, cevent, beganAt,
                   bodyRuns, restOfClose>>

\* logger.worker.CloseWorker() in the body the callback runs
CallbackCloseWorker == cpc["c2"] = "cw" /\ CloseWorker("c2")

\* a callback invoked by the step has returned: its call of CloseLogger is
\* over. (A write on the open file fails only after that.)
CallbackOver == step'.cb >= 1 => cpc["c2"] = "ret"

WorkCriticalCallback == WorkCritical /\ CallbackOver
TimerCriticalCallback == TimerCritical /\ CallbackOver
CloseCritical1Callback(c) == CloseCritical1(c) /\ CallbackOver
CloseCriticalWriteCallback(c) == CloseCriticalWrite(c) /\ CallbackOver
CloseCritical2Callback(c) == CloseCritical2(c) /\ CallbackOver

NextCallback ==
    \/ \E p \in Producers : logEntry(p)
    \/ \E p \in Producers : Send(p)
    \/ WorkSelect
    \/ WorkRecv
    \/ WorkLock
    \/ WorkCriticalCallback
    \/ TimerTick
    \/ TimerLock
    \/ TimerCriticalCallback
    \/ TimerQuit
    \/ Callback
    \/ CallbackCloseWorker
    \/ CloseLogger("c1")
    \/ CloseWorker("c1")
    \/ \E c \in Closers : LoggerWait(c)
    \/ \E c \in Closers : WorkerWait(c)
    \/ \E c \in Closers : CloseQuit(c)
    \/ \E c \in Closers : CloseLock(c)
    \/ \E c \in Closers : CloseCritical1Callback(c)
    \/ \E c \in Closers : CloseLen(c)
    \/ \E c \in Closers : CloseRecv(c)
    \/ \E c \in Closers : CloseCriticalWriteCallback(c)
    \/ \E c \in Closers : CloseCritical2Callback(c)
    \/ \E c \in Closers : CloseReturn(c)
    \/ RemoveFile

SpecCallback == Init /\ [][NextCallback]_vars

\* ---------------------------------------------------- the logging methods
Levels == {AllLevels[i] : i \in 1..Len(AllLevels)}

\* isLoggable as it would be with the comparison the other way round
isLoggableReversed(level) == status /\ level >= logLevel

\* isLoggable
isLoggable(level) == status /\ logLevel >= level

\* what a logging method called at level saw and got from isLoggable
Call(level, format) ==
    [level |-> level, format |-> format, status |-> status, logLevel |-> logLevel,
     loggable |-> isLoggable(level)]

\* Debug, Info, Warn, Error and their ...func variants: if isLoggable(level),
\* logEntry(level, args) up to the send
Log(p) ==
    /\ ~crashed /\ ppc[p] = "idle" /\ Logged < MaxEntries
    /\ \E level \in Levels, len \in MsgLens :
         /\ pcall' = [pcall EXCEPT ![p] = Call(level, FALSE)]
         /\ IF isLoggable(level) /\ ~stopCh
            THEN /\ ppc' = [ppc EXCEPT ![p] = "send"]
                 /\ pent' = [pent EXCEPT ![p] = NewEntry(level, len)]
            ELSE UNCHANGED prodVars
    /\ Still
    /\ UNCHANGED <<status, logLevel, chanVars, closeVars, workVars, tpc, exists>>

\* Debugf, Infof, Warnf, Errorf: if isLoggable(level),
\* logFormattedEntry(level, format, args) up to the send
Logf(p) ==
    /\ ~crashed /\ ppc[p] = "idle" /\ Logged < MaxEntries
    /\ \E level \in Levels, len \in MsgLens :
         /\ pcall' = [pcall EXCEPT ![p] = Call(level, TRUE)]
         /\ IF isLoggable(level) /\ ~stopCh
            THEN /\ ppc' = [ppc EXCEPT ![p] = "send"]
                 /\ pent' = [pent EXCEPT ![p] = NewFormattedEntry(DebugLevel, len)]
            ELSE UNCHANGED prodVars
    /\ Still
    /\ UNCHANGED <<status, logLevel, chanVars, closeVars, workVars, tpc, exists>>

SetLevel(level) ==
    /\ ~crashed /\ logLevel # level
    /\ logLevel' = level
    /\ Still
    /\ UNCHANGED <<status, pcall, chanVars, closeVars, prodVars, workVars, tpc, exists>>

SetStatus(on) ==
    /\ ~crashed /\ status # on
    /\ status' = on
    /\ Still
    /\ UNCHANGED <<logLevel, pcall, chanVars, closeVars, prodVars, workVars, tpc, exists>>

\* the Logger's methods used by the producers, with Work rendering the entries
NextLogger ==
    \/ \E p \in Producers : Log(p)
    \/ \E p \in Producers : Logf(p)
    \/ \E level \in Levels : SetLevel(level)
    \/ \E on \in BOOLEAN : SetStatus(on)
    \/ \E p \in Producers : Send(p)
    \/ WorkSelect
    \/ WorkRecv
    \/ WorkWrite

SpecLogger == Init /\ [][NextLogger]_vars

\* the logging methods and the setters alone, up to the channel
NextFilter ==
    \/ \E p \in Producers : Log(p)
    \/ \E p \in Producers : Logf(p)
    \/ \E level \in Levels : SetLevel(level)
    \/ \E on \in BOOLEAN : SetStatus(on)
    \/ \E p \in Producers : Send(p)

SpecFilter == Init /\ [][NextFilter]_vars

\* ------------------------------------------- callers of String, ParseLevel
loggerVars == <<channel, nextId, stopCh, done, quitTimer, lonce, wonce, buffer, position,
                lock, file, exists, fileClosed, fails, crashed, ppc, pent, wpc, wevent,
                tpc, cpc, capi, clen, ci, cevent, sent, appended, mark, step,
                beganAt, bodyRuns, ioFailed, filterVars>>

\* the upper-case letter of a lower-case one; any other character is itself
Upper(c) ==
    IF \E u \in DOMAIN Lower : Lower[u] = c
    THEN CHOOSE u \in DOMAIN Lower : Lower[u] = c
    ELSE c

\* the word w with the letters at the positions in m in upper case
Cased(w, m) == [i \in 1..Len(w) |-> IF i \in m THEN Upper(w[i]) ELSE w[i]]

\* the names ParseLevel accepts, and the level of each
Names == {<<<<"e", "r", "r", "o", "r">>, ErrorLevel>>,
          <<<<"w", "a", "r", "n">>, WarnLevel>>,
          <<<<"w", "a", "r", "n", "i", "n", "g">>, WarnLevel>>,
          <<<<"i", "n", "f", "o">>, InfoLevel>>,
          <<<<"d", "e", "b", "u", "g">>, DebugLevel>>}

\* the words whose every letter case is given to ParseLevel: the names and
\* some other texts
Words == {nm[1] : nm \in Names} \cup
         {<<>>, <<"u", "n", "k", "n", "o", "w", "n">>, <<"w", "a", "r", "n", "i", "n">>,
          <<"i", "n", "f", "o", "s">>, <<"e", "b", "u", "g">>, <<"i", "n", "f", "0">>,
          <<"e", "r", "r", " ", "o", "r">>}

Texts == UNION {{Cased(w, m) : m \in SUBSET (1..Len(w))} : w \in Words}

InitLevel ==
    /\ NewLogger
    /\ inLevel \in 0..MaxLevelValue
    /\ inText \in Texts
    /\ outText = NoText /\ outParse = NoResult

\* level.String()
LevelString ==
    /\ outText = NoText
    /\ outText' = String(inLevel)
    /\ UNCHANGED <<inLevel, inText, outParse, loggerVars>>

\* ParseLevel(text)
LevelParse ==
    /\ outParse = NoResult
    /\ outParse' = ParseLevel(inText)
    /\ UNCHANGED <<inLevel, inText, outText, loggerVars>>

\* ParseLevel(level.String())
LevelRoundTrip ==
    /\ outText # NoText /\ inText # outText
    /\ inText' = outText
    /\ outParse' = ParseLevel(outText)
    /\ UNCHANGED <<inLevel, outText, loggerVars>>

NextLevel ==
    \/ LevelString
    \/ LevelParse
    \/ LevelRoundTrip

SpecLevel == InitLevel /\ [][NextLevel]_vars

TypeOK ==
    /\ Len(channel) <= ChanCap
    /\ nextId \in 0..MaxEntries
    /\ position \in Nat
    /\ lock \in {"free", "work", "timer"} \cup Closers
    /\ fails \in 0..MaxFail
    /\ bodyRuns \in Nat

\* ---------------------------------------------------------------- claims
\* CloseWorker has returned to some caller
CloseWorkerReturned == \E c \in Closers : cpc[c] \in {"after", "ret"}

\* the line rendered for e is in the file as one run of bytes
InFile(e) ==
    \E i \in 0..(Len(file) - Len(Render(e))) :
        \A k \in 1..Len(Render(e)) : file[i + k] = Render(e)[k]

\* every line rendered so far fits the buffer
AllFit == \A i \in 1..Len(sent) : Len(Render(sent[i])) <= capacity

\* nobody will send on the channel any more: stopCh is closed and no logging
\* call is past its check of stopCh
NoSender == stopCh /\ \A p \in Producers : ppc[p] # "send"

\* C1: once CloseWorker has returned, with no failed flush and the file present,
\* every entry enqueued before CloseWorker began has its rendered line in the
\* file (stated for lines that fit the buffer).
C1_LosslessShutdown ==
    (CloseWorkerReturned /\ ~ioFailed /\ exists /\ AllFit)
        => \A id \in 1..beganAt : InFile(sent[id])

\* C2: once CloseWorker has returned, with no failed flush and the file present,
\* position is 0, in that state and in every later one (stated for lines that
\* fit the buffer).
C2_PositionZeroAfterClose ==
    (CloseWorkerReturned /\ ~ioFailed /\ exists /\ AllFit) => position = 0

\* C3: once CloseWorker has returned, with no failed flush, the lines of the one
\* producer are in the file in the order they were enqueued (stated for lines
\* that fit the buffer).
C3_FileInEnqueueOrder ==
    (CloseWorkerReturned /\ ~ioFailed /\ AllFit)
        => \A i, j \in 1..Len(file) : i < j => file[i][1] <= file[j][1]

\* C4: the body of CloseWorker is executed once whatever the number of calls of
\* CloseWorker and CloseLogger, and a call returns only after that execution
\* (and, for CloseLogger, the body of CloseLogger) is over.
C4_ShutdownOnce ==
    /\ bodyRuns <= 1
    /\ \A c \in Closers :
         /\ cpc[c] \in {"after", "ret"} => (bodyRuns = 1 /\ wonce = "done")
         /\ (cpc[c] = "ret" /\ capi[c] = "CloseLogger")
                => (lonce = "done" /\ stopCh /\ fileClosed)

\* two calls have returned, one of CloseLogger and one of CloseWorker, the
\* second made while the body was running
C4_Witness ==
    /\ \A c \in Closers : cpc[c] = "ret"
    /\ capi["c1"] # capi["c2"]
    /\ bodyRuns = 1

\* C5: CloseWorker's drain loop is never left waiting on an empty channel that
\* nobody will send on (no flush has failed).
C5_DrainNeverBlocks ==
    ~(/\ \E c \in Closers : cpc[c] = "recv"
      /\ channel = <<>>
      /\ NoSender
      /\ ~ioFailed /\ ~crashed /\ AllFit)

\* C6: after done is closed, Work is never left waiting on an empty channel
\* that nobody will send on.
C6_WorkNeverBlocks ==
    ~(/\ wpc = "recv"
      /\ done
      /\ channel = <<>>
      /\ NoSender
      /\ \A c \in Closers : cpc[c] # "recv"
      /\ ~crashed)

\* C7: with no failed flush, the bytes in the file followed by
\* buffer[0:position] are the appended spans in the order of the appends.
C7_NoByteLost ==
    ~ioFailed => file \o Valid = appended

\* C8: while the spans appended since the last flush total at most capacity,
\* buffer[0:position] holds them in order, an append that fits writes nothing
\* to the file, and a successful save writes exactly them and resets position.
C8_AppendsThenFlush ==
    /\ [](Len(Pending) <= capacity => Valid = Pending)
    /\ [][(step'.op = "Write" /\ position + step'.len <= capacity)
            => (step'.outcome = "none" /\ file' = file
                /\ position' = position + step'.len)]_vars
    /\ [][(step'.op = "save" /\ step'.outcome = "ok" /\ Len(Pending) <= capacity)
            => (file' = file \o Pending /\ position' = 0)]_vars

\* two lines were appended without a flush and then written by one save
C8_Witness ==
    /\ step.op = "save" /\ step.outcome = "ok" /\ step.n = 2
    /\ Len(file) = 2 /\ file[1][1] # file[2][1]
    /\ position = 0

\* the latest step called save on a non-empty buffer
FlushAttempt == step.op # "none" /\ step.outcome # "none"

\* C9: a flush attempt on a non-empty buffer with the file missing writes
\* nothing, invokes the callback once and leaves position as it was, whoever
\* makes it.
C9_MissingFile ==
    [][(FlushAttempt' /\ position > 0 /\ ~exists)
        => (/\ step'.outcome = "missing"
            /\ step'.cb = 1
            /\ file' = file
            /\ step'.n = 0
            /\ step'.posAfter = position
            /\ (step'.op = "save" => position' = position))]_vars

\* the make-room flush of an append found the file missing
C9_Witness ==
    step.op = "Write" /\ step.outcome = "missing" /\ step.cb = 1

\* C10: a flush whose file write fails invokes the callback and does not reset
\* position, whoever calls it.
C10_WriteFailure ==
    step.outcome = "error" => (step.cb >= 1 /\ step.posAfter = step.posBefore)

\* C11: an append whose make-room flush fails (the write errors or the file is
\* missing) invokes the callback and copies nothing: position is what it was.
C11_FailedMakeRoomFlush ==
    (step.op = "Write" /\ step.outcome \in {"error", "missing"})
        => (step.cb >= 1 /\ ~step.copied /\ position = step.posBefore)

\* C15: once stopCh is closed no logging call puts an entry on the channel.
C15_NoEnqueueAfterStop ==
    [][stopCh => sent' = sent]_vars

\* C16: position stays within 0..capacity.
C16_PositionInRange ==
    position >= 0 /\ position <= capacity

\* C18: after a flush that failed with a write error, the unflushed bytes are
\* still buffered and the lock is free, so that the next trigger (a tick, an
\* append, CloseWorker) can attempt the write again.
C18_RetryByNextTrigger ==
    (step.op \in {"save", "Write"} /\ step.outcome = "error")
        => (position = step.posBefore /\ lock = "free")

\* C19: once quitTimer is closed the timer loop makes no flush.
C19_NoFlushAfterQuit ==
    ~(quitTimer /\ step.op = "save" /\ step.caller = "timer")

\* C20: whenever no Write and no flush is in progress the mutex is free (each
\* of them is one step, so none is in progress between steps).
C20_LockReleased ==
    lock = "free"

\* t is the name w in some letter case
IsCaseOf(t, w) ==
    Len(t) = Len(w) /\ \A i \in 1..Len(t) : t[i] = w[i] \/ t[i] = Upper(w[i])

\* C12: ParseLevel(String(level)) is level, with no error, for the four levels;
\* ParseLevel returns the level of a name given in any letter case ("warn" and
\* "warning" for Warn) and an error for every other text; String of a value
\* outside the four levels is "unknown".
C12_LevelRoundTrip ==
    /\ (outText # NoText /\ inLevel \notin {ErrorLevel, WarnLevel, InfoLevel, DebugLevel})
            => outText = <<"u", "n", "k", "n", "o", "w", "n">>
    /\ (outText # NoText /\ inText = outText /\ outParse # NoResult
        /\ inLevel \in {ErrorLevel, WarnLevel, InfoLevel, DebugLevel})
            => outParse = [level |-> inLevel, err |-> FALSE]
    /\ outParse # NoResult =>
         /\ \A nm \in Names :
              IsCaseOf(inText, nm[1]) => outParse = [level |-> nm[2], err |-> FALSE]
         /\ (\A nm \in Names : ~IsCaseOf(inText, nm[1])) => outParse.err

\* Warn went through String and ParseLevel and came back
C12_Witness ==
    /\ inLevel = WarnLevel /\ outText # NoText /\ inText = outText
    /\ outParse = [level |-> WarnLevel, err |-> FALSE]

\* C13: the entry a formatted logging call puts on the channel has the level
\* of the call.
C13_FormattedLevel ==
    [][\A p \in Producers :
         (ppc[p] = "send" /\ pent[p].format /\ Len(sent') > Len(sent))
            => sent'[Len(sent')].level = pcall[p].level]_vars

InCritical ==
    (IF wpc = "cs" THEN {"work"} ELSE {}) \cup
    (IF tpc = "cs" THEN {"timer"} ELSE {}) \cup
    {c \in Closers : cpc[c] \in {"cs1", "csw", "cs2"}}

\* C17: at most one task is inside its critical section on buffer and position,
\* and it holds the lock.
C17_MutualExclusion ==
    /\ Cardinality(InCritical) <= 1
    /\ \A t \in InCritical : lock = t

\* the timer loop is inside its flush while Work waits at the Lock() of Write
\* and CloseWorker at the Lock() of its first flush
C17_Witness ==
    /\ InCritical = {"timer"}
    /\ wpc = "write"
    /\ cpc["c1"] = "save1"
    /\ position > 0

\* no element of the sequence s occurs in it twice
NoDuplicate(s) == \A i, j \in 1..Len(s) : i # j => s[i] # s[j]

\* C22: every entry is rendered at most once, and every rendered byte is in
\* the file at most once.
C22_NoDuplication ==
    NoDuplicate(appended) /\ NoDuplicate(file)

\* the callback's call of CloseLogger is in progress
InCallback == cpc["c2"] \notin {"idle", "ret"}

\* the task that invoked the callback: the one inside its critical section
Invoker == CHOOSE t \in {"work", "timer", "c1"} : t \in InCritical

\* C21: the callback's call of CloseLogger never waits for what the task that
\* invoked it holds: the mutex at a Lock() of CloseWorker, or a Once whose
\* body that task is running.
C21_CallbackReturns ==
    InCallback =>
        /\ ~(cpc["c2"] \in {"save1", "write", "save2"} /\ lock = Invoker)
        /\ ~(cpc["c2"] \in {"lwait", "wwait"} /\ Invoker = "c1")

====
